---- MODULE Spec2Model ----
(***************************************************************************)
(* A model of tlapkinfo.py: the per-entry classification and aggregation   *)
(* of extractapk, the summary printing of parseapk, and the command-line   *)
(* driver main (option parsing, single-file mode, directory-batch mode).   *)
(*                                                                         *)
(* Strings are TLA+ strings; startswith/endswith are computed on them.     *)
(* Command lines use short options only (no "--long" tokens).              *)
(***************************************************************************)
EXTENDS Integers, Sequences, FiniteSets, TLC

VARIABLES
    argv,        \* sys.argv[1:]
    pc,          \* control location
    stack,       \* return locations of the active calls (<<>>: extractapk called directly)
    opts,        \* the (option, argument) pairs getopt returned
    optidx,      \* position of the "for o, a in opts" loop
    verbose, showtotal, filearg, filename, patharg, pathname,   \* main's locals
    found,       \* the file names find_files yields, in walk order
    pending,     \* the part of found the batch loop has not reached yet
    calls,       \* the file names parseapk was called with, in order
    stdout, stderr, exitstatus,
    afilename, totalonly, everbose,   \* extractapk's parameters
    entries,     \* zipinfolist(afilename)
    idx,         \* position of the "for i in zipinfolist" loop
    loc,         \* extractapk's locals: the eight counters and matched
    ret,         \* the value extractapk returned (None before, or when it raised)
    exc          \* the exception that ended the run, "" when none

mainvars == <<argv, opts, optidx, verbose, showtotal, filearg, filename,
              patharg, pathname, found, pending, calls>>
iovars == <<stdout, stderr, exitstatus>>
exvars == <<afilename, totalonly, everbose, entries, idx, loc, ret>>
vars == <<pc, stack, exc, mainvars, iovars, exvars>>

\* ------------------------------------------------------------------ bounds
MaxEntries == 2      \* longest archive (entries) of the direct-call specification
MaxArgs == 4         \* longest command line (tokens after the program name)
MaxFiles == 3        \* most files in the directory given to -p

\* --------------------------------------------------------------- constants
ZIP_STORED == 0
ZIP_DEFLATED == 8
ZIP_BZIP2 == 12

None == [none |-> TRUE]

imagelist == <<".png", ".jpg", ".jpeg", ".bmp", ".gif">>

compression_types == <<<<ZIP_STORED, "stored">>, <<ZIP_DEFLATED, "deflated">>>>

\* dict(compression_types): a function on the keys of the table
\* a table that answers every method, with a default label
compression_types_dict_default ==
    [k \in {ZIP_STORED, ZIP_DEFLATED, ZIP_BZIP2} |->
        IF k = ZIP_STORED THEN "stored" ELSE IF k = ZIP_DEFLATED THEN "deflated" ELSE "unknown"]

compression_types_dict ==
    [k \in {compression_types[n][1] : n \in 1..Len(compression_types)} |->
        LET n == CHOOSE m \in 1..Len(compression_types) : compression_types[m][1] = k
        IN  compression_types[n][2]]

progshortargs == "htf:p:v"

doc == "Usage: tlpakinfo [OPTION] [-f FILE | -p PATH]"

\* ---------------------------------------------------------- string helpers
startswith(s, p) == Len(s) >= Len(p) /\ SubSeq(s, 1, Len(p)) = p

endswith(s, p) == Len(s) >= Len(p) /\ SubSeq(s, Len(s) - Len(p) + 1, Len(s)) = p

\* fnmatch.fnmatch(basename, '*.apk') on a POSIX system: case-sensitive suffix
fnmatch_apk(basename) == endswith(basename, ".apk")

\* the extension list cut short: ".gif" is never tried
isasset_nogif(f) == \E n \in 1..(Len(imagelist) - 1) : endswith(f, imagelist[n])

isasset(f) == \E n \in 1..Len(imagelist) : endswith(f, imagelist[n])

\* ------------------------------------------------------- extractapk's body
ZeroLocals ==
    [storedsize |-> 0, uctotalsize |-> 0, assetsize |-> 0, metainfsize |-> 0,
     xmlsize |-> 0, miscsize |-> 0, ucassetsize |-> 0, cassetsize |-> 0,
     matched |-> FALSE]

\* matched is initialised once, before the loop, instead of per entry
ResetMatched_stale(l) == l

ResetMatched(l) == [l EXCEPT !.matched = FALSE]

\* the stored/deflated test inverted
AddStored_swapped(l, i) ==
    IF i.compress_type = ZIP_DEFLATED
    THEN [l EXCEPT !.storedsize = @ + i.file_size]
    ELSE [l EXCEPT !.storedsize = @ + i.compress_size]

\* "=" written for "+=" on the non-deflated branch
AddStored_assign(l, i) ==
    IF i.compress_type # ZIP_DEFLATED
    THEN [l EXCEPT !.storedsize = i.file_size]
    ELSE [l EXCEPT !.storedsize = @ + i.compress_size]

AddStored(l, i) ==
    IF i.compress_type # ZIP_DEFLATED
    THEN [l EXCEPT !.storedsize = @ + i.file_size]
    ELSE [l EXCEPT !.storedsize = @ + i.compress_size]

\* the total takes the on-disk size of a deflated entry
AddTotal_ondisk(l, i) ==
    IF i.compress_type # ZIP_DEFLATED
    THEN [l EXCEPT !.uctotalsize = @ + i.file_size]
    ELSE [l EXCEPT !.uctotalsize = @ + i.compress_size]

AddTotal(l, i) == [l EXCEPT !.uctotalsize = @ + i.file_size]

AddMetaInf(l, i) ==
    IF startswith(i.filename, "META-INF/")
    THEN [l EXCEPT !.matched = TRUE, !.metainfsize = @ + i.file_size]
    ELSE l

\* the deflated branch counts the uncompressed size in cassetsize
AddAsset_mixed(l, i) ==
    IF isasset(i.filename)
    THEN IF i.compress_type # ZIP_DEFLATED
         THEN [l EXCEPT !.matched = TRUE,
                        !.assetsize = @ + i.file_size,
                        !.ucassetsize = @ + i.file_size]
         ELSE [l EXCEPT !.matched = TRUE,
                        !.assetsize = @ + i.compress_size,
                        !.cassetsize = @ + i.file_size]
    ELSE l

AddAsset(l, i) ==
    IF isasset(i.filename)
    THEN IF i.compress_type # ZIP_DEFLATED
         THEN [l EXCEPT !.matched = TRUE,
                        !.assetsize = @ + i.file_size,
                        !.ucassetsize = @ + i.file_size]
         ELSE [l EXCEPT !.matched = TRUE,
                        !.assetsize = @ + i.compress_size,
                        !.cassetsize = @ + i.compress_size]
    ELSE l

\* "elif": the XML test is skipped once an earlier test matched
AddXml_elif(l, i) ==
    IF ~l.matched /\ endswith(i.filename, ".xml")
    THEN [l EXCEPT !.matched = TRUE, !.xmlsize = @ + i.file_size]
    ELSE l

AddXml(l, i) ==
    IF endswith(i.filename, ".xml")
    THEN [l EXCEPT !.matched = TRUE, !.xmlsize = @ + i.file_size]
    ELSE l

AddMisc(l, i) ==
    IF ~l.matched THEN [l EXCEPT !.miscsize = @ + i.file_size] ELSE l

\* one iteration of the loop, lines 98-124
ProcessEntry(l, i) ==
    AddMisc(AddXml(AddAsset(AddMetaInf(AddTotal(AddStored(ResetMatched(l), i), i), i), i), i), i)

\* the loop of lines 97-124 as a fold over the entry sequence
RECURSIVE FoldEntries(_, _)
FoldEntries(l, s) ==
    IF s = <<>> THEN l ELSE FoldEntries(ProcessEntry(l, Head(s)), Tail(s))

ApkData(l) ==
    [storedsize |-> l.storedsize, uctotalsize |-> l.uctotalsize,
     assetsize |-> l.assetsize, metainfsize |-> l.metainfsize,
     xmlsize |-> l.xmlsize, miscsize |-> l.miscsize,
     cassetsize |-> l.cassetsize, ucassetsize |-> l.ucassetsize]

\* the line extractapk prints for an entry
EntryLine(fname, v, i) ==
    <<IF v THEN fname \o " " \o i.filename ELSE i.filename,
      compression_types_dict[i.compress_type], i.compress_size, i.file_size>>

\* ------------------------------------------------------------- file system
EntryNames ==
    {"META-INF/MANIFEST.MF", "META-INF/foo.xml", "META-INF/a.gif",
     "res/layout/x.xml", "res/b.png", "lib/foo.so"}

CompressTypes == {ZIP_STORED, ZIP_DEFLATED, ZIP_BZIP2}

CompressSizes == {1}

FileSizes == {2, 3}

ZipInfo ==
    [filename : EntryNames, compress_type : CompressTypes,
     compress_size : CompressSizes, file_size : FileSizes]

SeqsUpTo(S, n) == UNION {[1..k -> S] : k \in 0..n}

Info(n, t, c, f) == [filename |-> n, compress_type |-> t, compress_size |-> c, file_size |-> f]

GoodEntries ==
    <<Info("META-INF/MANIFEST.MF", ZIP_DEFLATED, 1, 2), Info("res/b.png", ZIP_STORED, 3, 3)>>

UnkEntries ==
    <<Info("lib/foo.so", ZIP_BZIP2, 1, 2), Info("res/layout/x.xml", ZIP_DEFLATED, 1, 3)>>

\* What opening a path as a zip archive can give: NotAZip when ZipFile() raises
\* (missing, a directory, not a zip container), else the central directory.
NotAZip == [zip |-> FALSE, infolist |-> <<>>]

Zip(infolist) == [zip |-> TRUE, infolist |-> infolist]

Archive(path) ==
    CASE path = "any.apk"  -> {Zip(s) : s \in SeqsUpTo(ZipInfo, MaxEntries)} \cup {NotAZip}
      [] path = "d/good.apk" -> {Zip(GoodEntries)}
      [] path = "d/unk.apk"  -> {Zip(UnkEntries)}
      [] OTHER             -> {NotAZip}

isdir(path) == path = "d"

DirFiles == {"good.apk", "bad.apk", "unk.apk", "notes.txt"}

\* the orders in which os.walk can list a flat directory of at most MaxFiles files
Listings ==
    {s \in SeqsUpTo(DirFiles, MaxFiles) : \A a, b \in DOMAIN s : a # b => s[a] # s[b]}

RECURSIVE SelectApk(_)
SelectApk(s) ==
    IF s = <<>> THEN <<>>
    ELSE IF fnmatch_apk(Head(s)) THEN <<Head(s)>> \o SelectApk(Tail(s))
    ELSE SelectApk(Tail(s))

RECURSIVE JoinAll(_, _)
JoinAll(root, s) ==
    IF s = <<>> THEN <<>> ELSE <<root \o "/" \o Head(s)>> \o JoinAll(root, Tail(s))

\* find_files(directory, '*.apk') when os.walk lists the directory as listing
find_files(directory, listing) == JoinAll(directory, SelectApk(listing))

\* -------------------------------------------------------------------- getopt
\* getopt.short_has_arg(opt, progshortargs): "arg", "noarg" or "unrecognized"
short_has_arg(opt) ==
    LET hits == {k \in 1..Len(progshortargs) :
                    SubSeq(progshortargs, k, k) = opt /\ opt # ":"}
    IN  IF hits = {} THEN "unrecognized"
        ELSE LET k == CHOOSE m \in hits : \A n \in hits : m <= n
             IN  IF k < Len(progshortargs) /\ SubSeq(progshortargs, k + 1, k + 1) = ":"
                 THEN "arg" ELSE "noarg"

GetoptResult(e, o, a) == [err |-> e, opts |-> o, args |-> a]

\* getopt.do_shorts(opts, optstring, progshortargs, args)
RECURSIVE do_shorts(_, _, _)
do_shorts(o, optstring, args) ==
    IF optstring = "" THEN GetoptResult("", o, args)
    ELSE LET opt  == SubSeq(optstring, 1, 1)
             rest == SubSeq(optstring, 2, Len(optstring))
             kind == short_has_arg(opt)
         IN  IF kind = "unrecognized"
             THEN GetoptResult("option -" \o opt \o " not recognized", o, args)
             ELSE IF kind = "noarg"
             THEN do_shorts(Append(o, <<"-" \o opt, "">>), rest, args)
             ELSE IF rest # ""
             THEN GetoptResult("", Append(o, <<"-" \o opt, rest>>), args)
             ELSE IF args = <<>>
             THEN GetoptResult("option -" \o opt \o " requires argument", o, args)
             ELSE GetoptResult("", Append(o, <<"-" \o opt, Head(args)>>), Tail(args))

\* getopt.getopt(args, progshortargs, proglongargs), for short options
RECURSIVE getopt_loop(_, _)
getopt_loop(o, args) ==
    IF args = <<>> \/ ~startswith(Head(args), "-") \/ Head(args) = "-"
    THEN GetoptResult("", o, args)
    ELSE IF Head(args) = "--" THEN GetoptResult("", o, Tail(args))
    ELSE LET r == do_shorts(o, SubSeq(Head(args), 2, Len(Head(args))), Tail(args))
         IN  IF r.err # "" THEN r ELSE getopt_loop(r.opts, r.args)

getopt(args) == getopt_loop(<<>>, args)

Tokens == {"-t", "-v", "-h", "-f", "-p", "-x", "d", "d/good.apk", "n"}

\* ------------------------------------------------------- extractapk, steps
\* An exception nobody catches: a direct caller sees it; under main the
\* interpreter prints the traceback on stderr and exits with status 1.
Raise(e) ==
    /\ exc' = e
    /\ stack' = <<>>
    /\ IF stack = <<>>
       THEN /\ pc' = "raised"
            /\ UNCHANGED <<stderr, exitstatus>>
       ELSE /\ pc' = "exit"
            /\ stderr' = Append(stderr, <<"Traceback", e>>)
            /\ exitstatus' = 1

\* lines 89-97: the locals are zeroed and zipinfolist(afilename) is evaluated
ZipInfoList ==
    /\ pc = "extractapk"
    /\ \E content \in Archive(afilename) :
          IF ~content.zip
          THEN /\ Raise("BadZipFile")
               /\ UNCHANGED <<mainvars, stdout, exvars>>
          ELSE /\ entries' = content.infolist
               /\ idx' = 1
               /\ loc' = ZeroLocals
               /\ pc' = "loop"
               /\ UNCHANGED <<stack, exc, mainvars, iovars, afilename, totalonly, everbose, ret>>

\* lines 98-129: one iteration
EntryStep ==
    /\ pc = "loop"
    /\ idx <= Len(entries)
    /\ LET i == entries[idx] IN
          /\ loc' = ProcessEntry(loc, i)
          /\ idx' = idx + 1
          /\ IF totalonly
             THEN UNCHANGED <<pc, stack, exc, iovars>>
             ELSE IF i.compress_type \in DOMAIN compression_types_dict
                  THEN /\ stdout' = Append(stdout, EntryLine(afilename, everbose, i))
                       /\ UNCHANGED <<pc, stack, exc, stderr, exitstatus>>
                  ELSE /\ Raise("KeyError")
                       /\ UNCHANGED stdout
    /\ UNCHANGED <<mainvars, afilename, totalonly, everbose, entries, ret>>

\* lines 131-132
ExtractReturn ==
    /\ pc = "loop"
    /\ idx > Len(entries)
    /\ ret' = ApkData(loc)
    /\ IF stack = <<>>
       THEN pc' = "returned" /\ UNCHANGED stack
       ELSE pc' = Head(stack) /\ stack' = Tail(stack)
    /\ UNCHANGED <<exc, mainvars, iovars, afilename, totalonly, everbose, entries, idx, loc>>

\* ---------------------------------------------------------- parseapk, main
\* lines 137-148: what parseapk prints once extractapk has returned d
Summary(fname, d) ==
    <<  <<"apk:", fname>>,
        <<"stored content: ", d.storedsize>>,
        <<"uncompressed content: ", d.uctotalsize>>,
        <<"asset content: ", d.assetsize>>,
        <<"meta content: ", d.metainfsize>>,
        <<"xml content: ", d.xmlsize>>,
        <<"misc content: ", d.miscsize>>,
        <<"matched content total:", d.assetsize + d.metainfsize + d.xmlsize + d.miscsize>>,
        <<"compressed asset size:", d.cassetsize>>,
        <<"uncompressed asset size:", d.ucassetsize>>  >>

ParseapkPrint ==
    /\ pc = "parseapk"
    /\ stdout' = IF totalonly THEN stdout \o Summary(afilename, ret) ELSE stdout
    /\ pc' = Head(stack)
    /\ stack' = Tail(stack)
    /\ UNCHANGED <<exc, mainvars, stderr, exitstatus, exvars>>

\* parseapk(fname, showtotal, verbose) called from main, returning to back
CallParseapk(fname, back) ==
    /\ calls' = Append(calls, fname)
    /\ afilename' = fname
    /\ totalonly' = showtotal
    /\ everbose' = verbose
    /\ stack' = <<"parseapk", back>>
    /\ pc' = "extractapk"

\* sys.exit(status)
Exit(status) ==
    /\ pc' = "exit"
    /\ exitstatus' = status

\* lines 159-176
MainStart ==
    /\ pc = "main"
    /\ LET g == getopt(argv) IN
          IF g.err # ""
          THEN /\ stdout' = stdout \o <<g.err, doc>>
               /\ Exit(2)
               /\ UNCHANGED <<opts, filename>>
          ELSE IF Len(argv) = 0
          THEN /\ stdout' = Append(stdout, doc)
               /\ Exit(2)
               /\ UNCHANGED <<opts, filename>>
          ELSE /\ opts' = g.opts
               /\ filename' = argv[1]
               /\ pc' = "optloop"
               /\ UNCHANGED <<stdout, exitstatus>>
    /\ UNCHANGED <<stack, exc, argv, optidx, verbose, showtotal, filearg, patharg,
                   pathname, found, pending, calls, stderr, exvars>>

\* lines 177-195: one iteration of "for o, a in opts"
OptStep ==
    /\ pc = "optloop"
    /\ optidx <= Len(opts)
    /\ LET o == opts[optidx][1]
           a == opts[optidx][2]
       IN  /\ optidx' = optidx + 1
           /\ verbose' = IF o = "-v" THEN TRUE ELSE verbose
           /\ showtotal' = IF o # "-v" /\ o \in {"-t", "--total"} THEN TRUE ELSE showtotal
           /\ filename' = IF o \in {"-f", "--file"} THEN a ELSE filename
           /\ filearg' = IF o \in {"-f", "--file"} THEN TRUE ELSE filearg
           /\ pathname' = IF o \in {"-p", "--path"} THEN a ELSE pathname
           /\ patharg' = IF o \in {"-p", "--path"} THEN TRUE ELSE patharg
           /\ IF o \in {"-h", "--help"}
              THEN /\ stdout' = Append(stdout, doc)
                   /\ Exit(0)
              ELSE IF o \in {"-p", "--path"} /\ ~isdir(a)
              THEN /\ stdout' = Append(stdout, "Provided path should be a directory")
                   /\ Exit(2)
              ELSE UNCHANGED <<pc, stdout, exitstatus>>
    /\ UNCHANGED <<stack, exc, argv, opts, found, pending, calls, stderr, exvars>>

\* lines 197-200: the loop over opts is over
Dispatch ==
    /\ pc = "optloop"
    /\ optidx > Len(opts)
    /\ IF filearg
       THEN /\ CallParseapk(filename, "exit")
            /\ UNCHANGED <<found, pending, exitstatus>>
       ELSE IF patharg
       THEN /\ \E listing \in Listings :
                  /\ found' = find_files(pathname, listing)
                  /\ pending' = find_files(pathname, listing)
            /\ pc' = "batch"
            /\ UNCHANGED <<stack, calls, exitstatus, afilename, totalonly, everbose>>
       ELSE /\ Exit(0)
            /\ UNCHANGED <<stack, found, pending, calls, afilename, totalonly, everbose>>
    /\ UNCHANGED <<exc, argv, opts, optidx, verbose, showtotal, filearg, filename,
                   patharg, pathname, stdout, stderr, entries, idx, loc, ret>>

\* lines 200-201: one iteration of "for filename in find_files(...)"
BatchStep ==
    /\ pc = "batch"
    /\ IF pending = <<>>
       THEN /\ Exit(0)
            /\ UNCHANGED <<stack, filename, pending, calls, afilename, totalonly, everbose>>
       ELSE /\ filename' = Head(pending)
            /\ pending' = Tail(pending)
            /\ CallParseapk(Head(pending), "batch")
            /\ UNCHANGED exitstatus
    /\ UNCHANGED <<exc, argv, opts, optidx, verbose, showtotal, filearg,
                   patharg, pathname, found, stdout, stderr, entries, idx, loc, ret>>

InitCommon ==
    /\ opts = <<>> /\ optidx = 1
    /\ verbose = FALSE /\ showtotal = FALSE
    /\ filearg = FALSE /\ filename = ""
    /\ patharg = FALSE /\ pathname = ""
    /\ found = <<>> /\ pending = <<>> /\ calls = <<>>
    /\ stdout = <<>> /\ stderr = <<>> /\ exitstatus = 0
    /\ entries = <<>> /\ idx = 1 /\ loc = ZeroLocals
    /\ ret = None /\ exc = ""

\* extractapk("any.apk", totalonly, verbose) called directly
InitExtract ==
    /\ InitCommon
    /\ argv = <<>>
    /\ stack = <<>>
    /\ pc = "extractapk"
    /\ afilename = "any.apk"
    /\ totalonly \in BOOLEAN
    /\ everbose \in BOOLEAN

NextExtract == ZipInfoList \/ EntryStep \/ ExtractReturn

SpecExtract == InitExtract /\ [][NextExtract]_vars

\* the script run with a command line
Init ==
    /\ InitCommon
    /\ argv \in SeqsUpTo(Tokens, MaxArgs)
    /\ stack = <<>>
    /\ pc = "main"
    /\ afilename = ""
    /\ totalonly = FALSE
    /\ everbose = FALSE

Next ==
    \/ MainStart \/ OptStep \/ Dispatch \/ BatchStep
    \/ ZipInfoList \/ EntryStep \/ ExtractReturn \/ ParseapkPrint

Spec == Init /\ [][Next]_vars

\* ================================================================== claims
IsTerminal == pc \in {"returned", "raised"}

Returned == pc = "returned"

HasUnknownMethod(s) ==
    \E k \in 1..Len(s) : s[k].compress_type \notin {ZIP_STORED, ZIP_DEFLATED}

\* the loop has taken entries 1..k
Processed(k) == pc \in {"loop", "returned", "raised"} /\ idx > k /\ k <= Len(entries)

\* EntryStep is the step from the unprimed to the primed state
StepsEntry == pc = "loop" /\ idx <= Len(entries) /\ idx' = idx + 1

NameIsMeta(n) == startswith(n, "META-INF/")

NameIsImage(n) == \E ext \in {".png", ".jpg", ".jpeg", ".bmp", ".gif"} : endswith(n, ext)

NameIsXml(n) == endswith(n, ".xml")

OnDisk(i) == IF i.compress_type = ZIP_DEFLATED THEN i.compress_size ELSE i.file_size

RECURSIVE SumOnDisk(_)
SumOnDisk(s) == IF s = <<>> THEN 0 ELSE OnDisk(Head(s)) + SumOnDisk(Tail(s))

RECURSIVE SumFileSize(_)
SumFileSize(s) == IF s = <<>> THEN 0 ELSE Head(s).file_size + SumFileSize(Tail(s))

Permute(s, p) == [k \in 1..Len(s) |-> s[p[k]]]

\* ---- C1: in directory-batch mode, when one matched .apk file fails, the
\* error is reported, every remaining matched file is still processed, and
\* the process exits with a non-zero status.
FileFails(f) ==
    \E c \in Archive(f) : ~c.zip \/ (~showtotal /\ HasUnknownMethod(c.infolist))

InCalls(f) == \E k \in 1..Len(calls) : calls[k] = f

C1_BatchContinues ==
    (pc = "exit" /\ ~filearg /\ patharg /\ \E k \in 1..Len(found) : FileFails(found[k]))
        => /\ stderr # <<>>
           /\ \A k \in 1..Len(found) : InCalls(found[k])
           /\ exitstatus # 0

\* ---- C2 as stated: an archive with an entry of an unknown compression
\* method makes extractapk fail with a lookup error and return no ApkData,
\* whatever totalonly and verbose are.
C2_UnknownAlwaysFails ==
    (IsTerminal /\ HasUnknownMethod(entries))
        => (pc = "raised" /\ exc = "KeyError" /\ ret = None)

\* ---- C2 amended: with totalonly false, an archive with an entry of an
\* unknown compression method makes extractapk fail with a lookup error and
\* return no ApkData, whatever verbose is, and no line with a default label is
\* printed; with totalonly true no label is looked up and extractapk returns
\* the report of all the entries.
C2_UnknownFailsUnlessTotalonly ==
    /\ (IsTerminal /\ HasUnknownMethod(entries) /\ ~totalonly)
          => (pc = "raised" /\ exc = "KeyError" /\ ret = None)
    /\ (IsTerminal /\ HasUnknownMethod(entries) /\ totalonly)
          => (pc = "returned" /\ ret # None /\ ret.uctotalsize = SumFileSize(entries))
    /\ \A k \in 1..Len(stdout) : stdout[k][2] \in {"stored", "deflated"}

C2_Witness ==
    /\ pc = "raised" /\ exc = "KeyError" /\ ~totalonly /\ everbose
    /\ Len(entries) = 2
    /\ entries[1].compress_type = ZIP_DEFLATED
    /\ entries[2].compress_type = ZIP_BZIP2
    /\ Len(stdout) = 1

\* ---- C3: if neither or both of -f and -p are selected, or -p is given a
\* path that is not a directory, main prints the usage message and exits
\* with a non-zero status without processing any archive.
Selected(o) == \E k \in 1..Len(getopt(argv).opts) : getopt(argv).opts[k][1] = o

BadPathGiven ==
    \E k \in 1..Len(getopt(argv).opts) :
        getopt(argv).opts[k][1] = "-p" /\ ~isdir(getopt(argv).opts[k][2])

UsagePrinted == \E k \in 1..Len(stdout) : stdout[k] = doc

C3_UsageOnBadMode ==
    (/\ pc = "exit"
     /\ argv # <<>>
     /\ getopt(argv).err = ""
     /\ ~Selected("-h")
     /\ \/ Selected("-f") = Selected("-p")
        \/ BadPathGiven)
        => (UsagePrinted /\ exitstatus # 0 /\ calls = <<>>)

\* ---- C4: the storedsize extractapk returns is the sum over all entries of
\* compress_size for a deflated entry and of file_size for any other method.
C4_StoredSize == Returned => ret.storedsize = SumOnDisk(entries)

C4_Witness ==
    /\ Returned /\ Len(entries) = 2
    /\ entries[1].compress_type = ZIP_DEFLATED
    /\ entries[2].compress_type = ZIP_BZIP2
    /\ ret.storedsize = entries[1].compress_size + entries[2].file_size

\* ---- C5: the uctotalsize extractapk returns is the sum of file_size over
\* all entries, whatever their compression methods and names.
C5_UncompressedTotal == Returned => ret.uctotalsize = SumFileSize(entries)

C5_Witness ==
    /\ Returned /\ Len(entries) = 2
    /\ entries[1].compress_type = ZIP_DEFLATED
    /\ entries[2].compress_type = ZIP_STORED
    /\ entries[1].filename # entries[2].filename
    /\ ret.uctotalsize = entries[1].file_size + entries[2].file_size

\* ---- C6: processing one entry adds its file_size to miscsize exactly when
\* none of the three category tests fired; then metainfsize, assetsize,
\* xmlsize, cassetsize and ucassetsize are unchanged; when a test fired,
\* miscsize is unchanged.
C6_Residual ==
    [][StepsEntry =>
        LET i == entries[idx]
            none == ~NameIsMeta(i.filename) /\ ~NameIsImage(i.filename)
                      /\ ~NameIsXml(i.filename)
        IN  /\ loc'.miscsize = loc.miscsize + (IF none THEN i.file_size ELSE 0)
            /\ none => /\ loc'.metainfsize = loc.metainfsize
                       /\ loc'.assetsize = loc.assetsize
                       /\ loc'.xmlsize = loc.xmlsize
                       /\ loc'.cassetsize = loc.cassetsize
                       /\ loc'.ucassetsize = loc.ucassetsize]_vars

C6_Witness ==
    /\ Processed(2)
    /\ entries[1].filename = "META-INF/MANIFEST.MF"
    /\ entries[2].filename = "lib/foo.so"
    /\ idx = 3
    /\ loc.miscsize = entries[2].file_size
    /\ loc.metainfsize = entries[1].file_size

\* ---- C7: processing one asset entry increments exactly one of cassetsize
\* and ucassetsize: a non-deflated asset adds file_size to assetsize and
\* ucassetsize, a deflated asset adds compress_size to assetsize and
\* cassetsize; a non-asset entry changes none of the three.
C7_AssetSplit ==
    [][StepsEntry =>
        LET i == entries[idx] IN
            IF ~NameIsImage(i.filename)
            THEN /\ loc'.assetsize = loc.assetsize
                 /\ loc'.cassetsize = loc.cassetsize
                 /\ loc'.ucassetsize = loc.ucassetsize
            ELSE IF i.compress_type # ZIP_DEFLATED
            THEN /\ loc'.assetsize = loc.assetsize + i.file_size
                 /\ loc'.ucassetsize = loc.ucassetsize + i.file_size
                 /\ loc'.cassetsize = loc.cassetsize
            ELSE /\ loc'.assetsize = loc.assetsize + i.compress_size
                 /\ loc'.cassetsize = loc.cassetsize + i.compress_size
                 /\ loc'.ucassetsize = loc.ucassetsize]_vars

C7_Witness ==
    /\ Processed(2) /\ idx = 3
    /\ entries[1].filename = "res/b.png" /\ entries[1].compress_type = ZIP_STORED
    /\ entries[2].filename = "META-INF/a.gif" /\ entries[2].compress_type = ZIP_DEFLATED
    /\ loc.ucassetsize = entries[1].file_size
    /\ loc.cassetsize = entries[2].compress_size
    /\ loc.assetsize = entries[1].file_size + entries[2].compress_size

\* ---- C8: the META-INF, asset and XML tests are evaluated independently on
\* every entry: an entry satisfying several of them contributes to every
\* corresponding counter.
C8_IndependentTests ==
    [][StepsEntry =>
        LET i == entries[idx] IN
            /\ loc'.metainfsize =
                  loc.metainfsize + (IF NameIsMeta(i.filename) THEN i.file_size ELSE 0)
            /\ loc'.assetsize =
                  loc.assetsize + (IF NameIsImage(i.filename) THEN OnDisk(i) ELSE 0)
            /\ loc'.xmlsize =
                  loc.xmlsize + (IF NameIsXml(i.filename) THEN i.file_size ELSE 0)]_vars

C8_Witness ==
    /\ Processed(2) /\ idx = 3
    /\ entries[1].filename = "META-INF/foo.xml"
    /\ entries[2].filename = "META-INF/a.gif" /\ entries[2].compress_type = ZIP_STORED
    /\ loc.metainfsize = entries[1].file_size + entries[2].file_size
    /\ loc.xmlsize = entries[1].file_size
    /\ loc.assetsize = entries[2].file_size

\* ---- C9: extractapk returns the same eight counters for an entry sequence
\* and for every permutation of it.
C9_OrderIndependent ==
    Returned =>
        \A p \in Permutations(1..Len(entries)) :
            ApkData(FoldEntries(ZeroLocals, Permute(entries, p))) = ret

C9_Witness ==
    /\ Returned /\ Len(entries) = 2
    /\ entries[1].filename = "lib/foo.so" /\ entries[1].compress_type = ZIP_STORED
    /\ entries[2].filename = "res/b.png" /\ entries[2].compress_type = ZIP_DEFLATED
    /\ entries[1].file_size # entries[2].file_size

\* ---- C10: after any prefix of the entries, and in every returned ApkData,
\* assetsize = cassetsize + ucassetsize.
C10_AssetSum ==
    /\ loc.assetsize = loc.cassetsize + loc.ucassetsize
    /\ ret # None => ret.assetsize = ret.cassetsize + ret.ucassetsize

C10_Witness ==
    /\ Returned /\ Len(entries) = 2
    /\ ret.cassetsize > 0 /\ ret.ucassetsize > 0
    /\ ret.assetsize = ret.cassetsize + ret.ucassetsize

====
